---- MODULE Spec2Model ----
(***************************************************************************)
(* The web client of pure-analytics: App and its three views               *)
(* (TransactionList, ProductStatsComponent, ProductShow) with the          *)
(* BuySellDemandChart that consumes a product's transactions.              *)
(*                                                                         *)
(* Conventions                                                             *)
(*  - a JavaScript string is the tuple of its UTF-16 code units, so that   *)
(*    <, toLowerCase, toUpperCase, includes and split act on characters;   *)
(*  - `T | null` is a tuple of length <= 1: Null is <<>>, a value v is     *)
(*    <<v>>;                                                               *)
(*  - price is held in hundredths of a cent (the DECIMAL(12, 2) column),   *)
(*    chart amounts in cents, buy_sell_ratio in hundredths.                *)
(***************************************************************************)
EXTENDS Integers, Sequences, FiniteSets, TLC

(***************************************************************************)
(* Bounds of the model.                                                    *)
(***************************************************************************)
\* the longest transactions array a fetch delivers
MaxTx == 3
\* the longest products array a fetch delivers
MaxProducts == 3
\* the most fetches of product details one ProductShow has in flight
MaxInFlight == 2

(***************************************************************************)
(* JavaScript values.                                                      *)
(***************************************************************************)
Null == <<>>
Some(v) == <<v>>
IsNull(o) == o = <<>>
Val(o) == o[1]

\* string literals of the source, as code units
S_buy == <<98, 117, 121>>
S_sell == <<115, 101, 108, 108>>
S_zzz == <<122, 122, 122>>
S_BUY == <<66, 85, 89>>
S_SELL == <<83, 69, 76, 76>>
S_PurePriority == <<80, 117, 114, 101, 32, 80, 114, 105, 111, 114, 105, 116, 121>>
S_Standard == <<83, 116, 97, 110, 100, 97, 114, 100>>
S_empty == <<>>
S_Gold == <<71, 111, 108, 100>>
S_gold == <<103, 111, 108, 100>>
S_GOLD == <<71, 79, 76, 68>>
S_Silver == <<83, 105, 108, 118, 101, 114>>
S_Eagle == <<69, 97, 103, 108, 101>>
S_eagle == <<101, 97, 103, 108, 101>>
S_Bar == <<66, 97, 114>>
S_Maple == <<77, 97, 112, 108, 101>>
S_EA == <<69, 65>>
S_T == <<84>>

\* String.prototype.toLowerCase on the ASCII letters
ToLowerCase(s) ==
    [i \in 1..Len(s) |-> IF s[i] >= 65 /\ s[i] <= 90 THEN s[i] + 32 ELSE s[i]]

\* String.prototype.toUpperCase on the ASCII letters
ToUpperCase(s) ==
    [i \in 1..Len(s) |-> IF s[i] >= 97 /\ s[i] <= 122 THEN s[i] - 32 ELSE s[i]]

\* a < b on two strings: lexicographic on code units, a proper prefix first
StrLess(a, b) ==
    \E i \in 1..Len(b) :
        /\ \A k \in 1..(i - 1) : k <= Len(a) /\ a[k] = b[k]
        /\ \/ i = Len(a) + 1
           \/ i <= Len(a) /\ a[i] < b[i]

\* String.prototype.includes
Includes(s, sub) ==
    \E k \in 0..(Len(s) - Len(sub)) : \A j \in 1..Len(sub) : s[k + j] = sub[j]

\* s.split(sep)[0] for a one-character separator
SplitFirst(s, sep) ==
    IF \E i \in 1..Len(s) : s[i] = sep[1]
    THEN LET i == CHOOSE i \in 1..Len(s) :
                      s[i] = sep[1] /\ \A k \in 1..(i - 1) : s[k] # sep[1]
         IN SubSeq(s, 1, i - 1)
    ELSE s

\* a < b on two sort values of one column: both numbers or both strings
JsLess(a, b, isString) == IF isString THEN StrLess(a, b) ELSE a < b

Reverse(s) == [i \in 1..Len(s) |-> s[Len(s) + 1 - i]]

\* Array.prototype.sort with a comparator: stable, an element moves left
\* past those the comparator puts after it
SortBy(s, Cmp(_, _)) ==
    LET Insert(sorted, x) ==
            LET stay == {i \in 1..Len(sorted) : Cmp(sorted[i], x) <= 0}
                j == IF stay = {} THEN 0
                     ELSE CHOOSE i \in stay : \A k \in stay : k <= i
            IN SubSeq(sorted, 1, j) \o <<x>> \o SubSeq(sorted, j + 1, Len(sorted))
        F[i \in 0..Len(s)] == IF i = 0 THEN <<>> ELSE Insert(F[i - 1], s[i])
    IN F[Len(s)]

(***************************************************************************)
(* event_time: an ISO 8601 UTC timestamp, "YYYY-MM-DDTHH:MM:SSZ".          *)
(***************************************************************************)
S_2024_12_31 == <<50, 48, 50, 52, 45, 49, 50, 45, 51, 49>>
S_2025_01_01 == <<50, 48, 50, 53, 45, 48, 49, 45, 48, 49>>
S_2025_01_02 == <<50, 48, 50, 53, 45, 48, 49, 45, 48, 50>>
S_00_00_00Z == <<48, 48, 58, 48, 48, 58, 48, 48, 90>>
S_23_30_00Z == <<50, 51, 58, 51, 48, 58, 48, 48, 90>>

Iso(date, time) == date \o S_T \o time

\* the number written in decimal digits at s[from..to]
DigitsAt(s, from, to) ==
    LET F[i \in (from - 1)..to] ==
            IF i = from - 1 THEN 0 ELSE 10 * F[i - 1] + (s[i] - 48)
    IN F[to]

\* days from 1970-01-01 to the civil date y-m-d (proleptic Gregorian)
DaysFromCivil(y, m, d) ==
    LET yy == IF m <= 2 THEN y - 1 ELSE y
        era == yy \div 400
        yoe == yy - era * 400
        mp == (m + 9) % 12
        doy == (153 * mp + 2) \div 5 + d - 1
        doe == yoe * 365 + yoe \div 4 - yoe \div 100 + doy
    IN era * 146097 + doe - 719468

\* new Date(s).getTime() in whole seconds: the timestamps carry no
\* milliseconds, so getTime() is 1000 times this
GetTimeSeconds(s) ==
    LET days == DaysFromCivil(DigitsAt(s, 1, 4), DigitsAt(s, 6, 7), DigitsAt(s, 9, 10))
    IN ((days * 24 + DigitsAt(s, 12, 13)) * 60 + DigitsAt(s, 15, 16)) * 60
           + DigitsAt(s, 18, 19)

(***************************************************************************)
(* The transactions the API can deliver: three products, every pairing of  *)
(* event_type (buy, sell, null) with a variant among them.  Fractional     *)
(* cents are .40, so no day's sum falls on a half cent, where the binary   *)
(* product decides which way Math.round goes.                              *)
(***************************************************************************)
S_p1 == <<112, 49>>
S_p2 == <<112, 50>>
S_p3 == <<112, 51>>
S_A1 == <<65, 49>>
S_B2 == <<66, 50>>
S_C3 == <<67, 51>>

Tx(id, nm, sk, mat, vl, et, q, p, spp, spd, ty) ==
    [pure_product_id |-> id, name |-> nm, sku |-> sk, material |-> mat,
     variant_label |-> vl, event_time |-> et, quantity |-> q, price |-> p,
     spot_premium_percentage |-> spp, spot_premium_dollar |-> spd,
     event_type |-> ty]

TxA(vl, et, q, p, spp, spd, ty) ==
    Tx(S_p1, S_Eagle, S_A1, S_Gold, vl, et, q, p, spp, spd, ty)
TxB(vl, et, q, p, spp, spd, ty) ==
    Tx(S_p2, S_eagle, S_B2, S_gold, vl, et, q, p, spp, spd, ty)
TxC(vl, et, q, p, spp, spd, ty) ==
    Tx(S_p3, S_Bar, S_C3, S_Silver, vl, et, q, p, spp, spd, ty)

AllTransactions ==
    { TxA(S_Standard, Iso(S_2025_01_01, S_00_00_00Z), 1, 100040, 250, 2500, Some(S_buy)),
      TxA(S_PurePriority, Iso(S_2025_01_01, S_23_30_00Z), 1, 100040, 250, -100, Some(S_sell)),
      TxA(S_Standard, Iso(S_2024_12_31, S_23_30_00Z), 2, 50000, -125, 0, Null),
      TxA(S_Standard, Iso(S_2025_01_02, S_00_00_00Z), 3, 25040, 475, -100, Some(S_sell)),
      TxB(S_Standard, Iso(S_2025_01_01, S_00_00_00Z), 2, 100040, 300, 2500, Some(S_sell)),
      TxB(S_PurePriority, Iso(S_2025_01_02, S_00_00_00Z), 1, 25040, 0, 700, Null),
      TxC(S_PurePriority, Iso(S_2024_12_31, S_23_30_00Z), 3, 33340, -125, 50, Some(S_buy)) }

\* the arrays without repeated rows, of at most n rows of S
ArraysOf(S, n) ==
    UNION { { s \in [1..k -> S] : \A i, j \in 1..k : i # j => s[i] # s[j] } : k \in 0..n }

\* GET /transactions
TransactionsResponses == ArraysOf(AllTransactions, MaxTx)

(***************************************************************************)
(* TransactionList: sorting and the Type badge.                            *)
(***************************************************************************)
TxSortColumns ==
    {"event_time", "material", "name", "quantity", "price", "total",
     "spot_premium_percentage", "spot_premium_dollar", "event_type"}

SortDirections == {"asc", "desc"}

\* a value is truthy: neither null nor the empty string
Truthy(o) == ~IsNull(o) /\ Val(o) # S_empty

\* sort values with the empty string standing for a missing event_type
TxSortValue_EmptyForMissing(col, tx) ==
    CASE col = "event_time" -> GetTimeSeconds(tx.event_time)
      [] col = "material" -> ToLowerCase(tx.material)
      [] col = "name" -> ToLowerCase(tx.name)
      [] col = "quantity" -> tx.quantity
      [] col = "price" -> tx.price
      [] col = "total" -> tx.quantity * tx.price
      [] col = "spot_premium_percentage" -> tx.spot_premium_percentage
      [] col = "spot_premium_dollar" -> tx.spot_premium_dollar
      [] col = "event_type" -> IF Truthy(tx.event_type) THEN Val(tx.event_type) ELSE S_empty

\* aValue / bValue of the switch on sortColumn
TxSortValue(col, tx) ==
    CASE col = "event_time" -> GetTimeSeconds(tx.event_time)
      [] col = "material" -> ToLowerCase(tx.material)
      [] col = "name" -> ToLowerCase(tx.name)
      [] col = "quantity" -> tx.quantity
      [] col = "price" -> tx.price
      [] col = "total" -> tx.quantity * tx.price
      [] col = "spot_premium_percentage" -> tx.spot_premium_percentage
      [] col = "spot_premium_dollar" -> tx.spot_premium_dollar
      [] col = "event_type" -> IF Truthy(tx.event_type) THEN Val(tx.event_type) ELSE S_zzz

\* the columns whose sort value is a string
TxStringColumn(col) == col \in {"material", "name", "event_type"}

\* a comparator whose second branch forgets the direction
TxCompare_OneWay(a, b, col, dir) ==
    LET aValue == TxSortValue(col, a)
        bValue == TxSortValue(col, b)
    IN IF JsLess(aValue, bValue, TxStringColumn(col))
       THEN (IF dir = "asc" THEN -1 ELSE 1)
       ELSE IF JsLess(bValue, aValue, TxStringColumn(col))
            THEN 1
            ELSE 0

\* the comparator's result
TxCompare(a, b, col, dir) ==
    LET aValue == TxSortValue(col, a)
        bValue == TxSortValue(col, b)
    IN IF JsLess(aValue, bValue, TxStringColumn(col))
       THEN (IF dir = "asc" THEN -1 ELSE 1)
       ELSE IF JsLess(bValue, aValue, TxStringColumn(col))
            THEN (IF dir = "asc" THEN 1 ELSE -1)
            ELSE 0

\* [...transactions].sort(...)
TxSorted(transactions, col, dir) ==
    LET Cmp(a, b) == TxCompare(a, b, col, dir)
    IN SortBy(transactions, Cmp)

\* the Type cell of a TransactionList row: no badge (Null) or its text and colour
TxBadge(tx) ==
    IF Truthy(tx.event_type) \/ tx.variant_label = S_PurePriority
    THEN Some([label |-> IF tx.variant_label = S_PurePriority THEN S_BUY
                         ELSE ToUpperCase(Val(tx.event_type)),
               colour |-> IF tx.event_type = Some(S_buy) \/ tx.variant_label = S_PurePriority
                          THEN "green"
                          ELSE IF tx.event_type = Some(S_sell) THEN "red" ELSE "gray"])
    ELSE Null

\* what Date.now() can read when the list renders, in seconds: from a second
\* before the new year to two days after it
ClockReadings ==
    {GetTimeSeconds(Iso(S_2025_01_01, S_00_00_00Z)) + d :
         d \in {-1, 0, 84599, 84600, 86400, 171000, 172799, 172800}}

\* a first date taken from the first row of the array
FirstTransactionDate_FirstRow(transactions, now) ==
    IF Len(transactions) > 0 THEN GetTimeSeconds(transactions[1].event_time) ELSE now

\* Math.min(...transactions.map(tx => new Date(tx.event_time).getTime())), or
\* Date.now() for no transaction
FirstTransactionDate(transactions, now) ==
    LET F[i \in 1..Len(transactions)] ==
            LET t == GetTimeSeconds(transactions[i].event_time)
            IN IF i = 1 THEN t ELSE IF t < F[i - 1] THEN t ELSE F[i - 1]
    IN IF Len(transactions) > 0 THEN F[Len(transactions)] ELSE now

\* Math.floor((Date.now() - firstTransactionDate) / (1000 * 60 * 60 * 24))
DaysScanned(transactions, now) ==
    (now - FirstTransactionDate(transactions, now)) \div (60 * 60 * 24)

(***************************************************************************)
(* ProductShow: sorting and the Type badge.                                *)
(***************************************************************************)
ShowSortColumns ==
    {"event_time", "quantity", "price", "total", "spot_premium_percentage",
     "spot_premium_dollar", "event_type"}

\* aValue / bValue of the switch on sortColumn
ShowSortValue(col, tx) ==
    CASE col = "event_time" -> GetTimeSeconds(tx.event_time)
      [] col = "quantity" -> tx.quantity
      [] col = "price" -> tx.price
      [] col = "total" -> tx.quantity * tx.price
      [] col = "spot_premium_percentage" -> tx.spot_premium_percentage
      [] col = "spot_premium_dollar" -> tx.spot_premium_dollar
      [] col = "event_type" -> IF Truthy(tx.event_type) THEN Val(tx.event_type) ELSE S_zzz

\* the columns whose sort value is a string
ShowStringColumn(col) == col = "event_type"

\* the comparator's result
ShowCompare(a, b, col, dir) ==
    LET aValue == ShowSortValue(col, a)
        bValue == ShowSortValue(col, b)
    IN IF JsLess(aValue, bValue, ShowStringColumn(col))
       THEN (IF dir = "asc" THEN -1 ELSE 1)
       ELSE IF JsLess(bValue, aValue, ShowStringColumn(col))
            THEN (IF dir = "asc" THEN 1 ELSE -1)
            ELSE 0

\* data ? [...data.transactions].sort(...) : []
ShowSorted(data, col, dir) ==
    LET Cmp(a, b) == ShowCompare(a, b, col, dir)
    IN IF IsNull(data) THEN <<>> ELSE SortBy(Val(data).transactions, Cmp)

\* the Type cell of a ProductShow row: no badge (Null) or its text and colour
ShowBadge(tx) ==
    IF Truthy(tx.event_type)
    THEN Some([label |-> ToUpperCase(Val(tx.event_type)),
               colour |-> IF tx.event_type = Some(S_buy) THEN "green"
                          ELSE IF tx.event_type = Some(S_sell) THEN "red" ELSE "gray"])
    ELSE Null

(***************************************************************************)
(* BuySellDemandChart.dailyData.                                           *)
(***************************************************************************)
\* price is DECIMAL(12, 2): the model holds it in hundredths of its unit
PriceScale == 100

\* an accumulator choice that looks at event_type before the variant
ChartSide_EventTypeFirst(tx) ==
    IF tx.event_type = Some(S_buy) THEN "buy"
    ELSE IF tx.event_type = Some(S_sell) THEN "sell"
    ELSE IF tx.variant_label = S_PurePriority THEN "buy"
    ELSE "none"

\* the accumulator a transaction is added to
ChartSide(tx) ==
    IF tx.event_type = Some(S_buy) \/ tx.variant_label = S_PurePriority THEN "buy"
    ELSE IF tx.event_type = Some(S_sell) THEN "sell"
    ELSE "none"

\* an amount rounded to the cent record by record
ChartAmount_RoundedEach(tx) ==
    ((tx.price * tx.quantity + PriceScale \div 2) \div PriceScale) * PriceScale

\* (tx.price * tx.quantity) / 100 dollars, in 1 / (100 * PriceScale) dollars
ChartAmount(tx) == tx.price * tx.quantity

\* dataMap after transactions.forEach: the entries in insertion order
DataMap(transactions) ==
    LET F[i \in 0..Len(transactions)] ==
            IF i = 0 THEN <<>>
            ELSE LET tx == transactions[i]
                     date == SplitFirst(tx.event_time, S_T)
                     amount == ChartAmount(tx)
                     m == IF \E k \in 1..Len(F[i - 1]) : F[i - 1][k].date = date
                          THEN F[i - 1]
                          ELSE Append(F[i - 1],
                                      [date |-> date, buyAmount |-> 0, sellAmount |-> 0])
                     k == CHOOSE k \in 1..Len(m) : m[k].date = date
                 IN IF ChartSide(tx) = "buy"
                    THEN [m EXCEPT ![k].buyAmount = @ + amount]
                    ELSE IF ChartSide(tx) = "sell"
                         THEN [m EXCEPT ![k].sellAmount = @ + amount]
                         ELSE m
    IN F[Len(transactions)]

\* Math.round(x * 100) / 100 of an amount in dollars, in cents
RoundToCents(x) == (x + PriceScale \div 2) \div PriceScale

\* a.localeCompare(b) on two dates "YYYY-MM-DD"
LocaleCompare(a, b) == IF StrLess(a, b) THEN -1 ELSE IF StrLess(b, a) THEN 1 ELSE 0

\* a series left in the map's insertion order
DailyData_Unsorted(transactions) ==
    LET m == DataMap(transactions)
    IN [k \in 1..Len(m) |->
           [date |-> m[k].date,
            buyAmount |-> RoundToCents(m[k].buyAmount),
            sellAmount |-> RoundToCents(m[k].sellAmount)]]

\* the chart's series: one entry per date, rounded, sorted by date
DailyData(transactions) ==
    LET m == DataMap(transactions)
        rounded == [k \in 1..Len(m) |->
                       [date |-> m[k].date,
                        buyAmount |-> RoundToCents(m[k].buyAmount),
                        sellAmount |-> RoundToCents(m[k].sellAmount)]]
        Cmp(a, b) == LocaleCompare(a.date, b.date)
    IN SortBy(rounded, Cmp)

(***************************************************************************)
(* ProductStatsComponent: the rows of GET /products/stats, the filter and  *)
(* the sort.                                                               *)
(***************************************************************************)
S_p4 == <<112, 52>>
S_D4 == <<68, 52>>

\* buy_sell_ratio is held in hundredths: 2.0 is 200
RatioScale == 100

Stats(id, mat, nm, sk, tc, bc, sc, r, vol, tbq, tsq, tba, tsa) ==
    [pure_product_id |-> id, material |-> mat, name |-> nm, sku |-> sk,
     transaction_count |-> tc, buy_count |-> bc, sell_count |-> sc,
     buy_sell_ratio |-> r, total_volume |-> vol, total_buy_quantity |-> tbq,
     total_sell_quantity |-> tsq, total_buy_amount |-> tba,
     total_sell_amount |-> tsa]

AllProductStats ==
    { Stats(S_p1, S_Gold, S_Eagle, S_A1, 3, 2, 1, Some(2 * RatioScale),
            Some(3000), Some(2), Some(1), Some(2000), Some(1000)),
      Stats(S_p2, S_gold, S_eagle, S_B2, 2, 2, 0, Null,
            Some(1500), Some(3), Null, Some(1500), Null),
      Stats(S_p3, S_Silver, S_Bar, S_C3, 3, 1, 2, Some(RatioScale \div 2),
            Some(900), Some(1), Some(4), Some(300), Some(600)),
      Stats(S_p4, S_GOLD, S_Maple, S_D4, 0, 0, 0, Null,
            Null, Null, Null, Null, Null) }

\* GET /products/stats
ProductStatsResponses == ArraysOf(AllProductStats, MaxProducts)

\* what the user types into the search box
SearchQueries == {S_empty, S_EA}

StatsSortColumns ==
    {"material", "name", "transaction_count", "buy_count", "sell_count",
     "buy_sell_ratio", "total_volume", "total_buy_quantity",
     "total_sell_quantity", "total_buy_amount", "total_sell_amount"}

\* o ?? d
Coalesce(o, d) == IF IsNull(o) THEN d ELSE Val(o)

\* Array.prototype.filter
Filter(s, Keep(_)) ==
    LET F[i \in 0..Len(s)] ==
            IF i = 0 THEN <<>>
            ELSE IF Keep(s[i]) THEN Append(F[i - 1], s[i]) ELSE F[i - 1]
    IN F[Len(s)]

\* the distinct materials in the order the products bring them
UniqueMaterials_FirstSeen(products) ==
    LET Seen[i \in 0..Len(products)] ==
            IF i = 0 THEN <<>>
            ELSE IF \E k \in 1..Len(Seen[i - 1]) : Seen[i - 1][k] = products[i].material
                 THEN Seen[i - 1]
                 ELSE Append(Seen[i - 1], products[i].material)
    IN Seen[Len(products)]

\* Array.from(new Set(products.map(p => p.material))).sort()
UniqueMaterials(products) ==
    LET Seen[i \in 0..Len(products)] ==
            IF i = 0 THEN <<>>
            ELSE IF \E k \in 1..Len(Seen[i - 1]) : Seen[i - 1][k] = products[i].material
                 THEN Seen[i - 1]
                 ELSE Append(Seen[i - 1], products[i].material)
        Cmp(a, b) == IF StrLess(a, b) THEN -1 ELSE IF StrLess(b, a) THEN 1 ELSE 0
    IN SortBy(Seen[Len(products)], Cmp)

\* a toggle that drops the rest of the selection when it adds
ToggleMaterial_Replace(selectedMaterials, material) ==
    IF material \in selectedMaterials
    THEN selectedMaterials \ {material}
    ELSE {material}

\* newSelected of toggleMaterial
ToggleMaterial(selectedMaterials, material) ==
    IF material \in selectedMaterials
    THEN selectedMaterials \ {material}
    ELSE selectedMaterials \cup {material}

\* a filter that passes a product on either predicate
MatchesFilter_Either(product, searchQuery, selectedMaterials) ==
    LET matchesSearch == Includes(ToLowerCase(product.name), ToLowerCase(searchQuery))
        matchesMaterial == selectedMaterials = {} \/ product.material \in selectedMaterials
    IN matchesSearch \/ matchesMaterial

\* a filter that compares materials case-folded
MatchesFilter_FoldedMaterial(product, searchQuery, selectedMaterials) ==
    LET matchesSearch == Includes(ToLowerCase(product.name), ToLowerCase(searchQuery))
        matchesMaterial ==
            \/ selectedMaterials = {}
            \/ \E m \in selectedMaterials : ToLowerCase(m) = ToLowerCase(product.material)
    IN matchesSearch /\ matchesMaterial

\* matchesSearch && matchesMaterial
MatchesFilter(product, searchQuery, selectedMaterials) ==
    LET matchesSearch == Includes(ToLowerCase(product.name), ToLowerCase(searchQuery))
        matchesMaterial == selectedMaterials = {} \/ product.material \in selectedMaterials
    IN matchesSearch /\ matchesMaterial

\* products.filter(...)
FilteredProducts(products, searchQuery, selectedMaterials) ==
    LET Keep(p) == MatchesFilter(p, searchQuery, selectedMaterials)
    IN Filter(products, Keep)

\* sort values that keep the letter case of material and name
StatsSortValue_CaseSensitive(col, p) ==
    CASE col = "material" -> p.material
      [] col = "name" -> p.name
      [] col = "transaction_count" -> p.transaction_count
      [] col = "buy_count" -> p.buy_count
      [] col = "sell_count" -> p.sell_count
      [] col = "buy_sell_ratio" -> Coalesce(p.buy_sell_ratio, (-1) * RatioScale)
      [] col = "total_volume" -> Coalesce(p.total_volume, 0)
      [] col = "total_buy_quantity" -> Coalesce(p.total_buy_quantity, 0)
      [] col = "total_sell_quantity" -> Coalesce(p.total_sell_quantity, 0)
      [] col = "total_buy_amount" -> Coalesce(p.total_buy_amount, 0)
      [] col = "total_sell_amount" -> Coalesce(p.total_sell_amount, 0)

\* aValue / bValue of the switch on sortColumn
StatsSortValue(col, p) ==
    CASE col = "material" -> ToLowerCase(p.material)
      [] col = "name" -> ToLowerCase(p.name)
      [] col = "transaction_count" -> p.transaction_count
      [] col = "buy_count" -> p.buy_count
      [] col = "sell_count" -> p.sell_count
      [] col = "buy_sell_ratio" -> Coalesce(p.buy_sell_ratio, (-1) * RatioScale)
      [] col = "total_volume" -> Coalesce(p.total_volume, 0)
      [] col = "total_buy_quantity" -> Coalesce(p.total_buy_quantity, 0)
      [] col = "total_sell_quantity" -> Coalesce(p.total_sell_quantity, 0)
      [] col = "total_buy_amount" -> Coalesce(p.total_buy_amount, 0)
      [] col = "total_sell_amount" -> Coalesce(p.total_sell_amount, 0)

\* the columns whose sort value is a string
StatsStringColumn(col) == col \in {"material", "name"}

\* a comparator that never answers 0
StatsCompare_NeverEqual(a, b, col, dir) ==
    LET aValue == StatsSortValue(col, a)
        bValue == StatsSortValue(col, b)
    IN IF JsLess(aValue, bValue, StatsStringColumn(col))
       THEN (IF dir = "asc" THEN -1 ELSE 1)
       ELSE IF JsLess(bValue, aValue, StatsStringColumn(col))
            THEN (IF dir = "asc" THEN 1 ELSE -1)
            ELSE 1

\* the comparator's result
StatsCompare(a, b, col, dir) ==
    LET aValue == StatsSortValue(col, a)
        bValue == StatsSortValue(col, b)
    IN IF JsLess(aValue, bValue, StatsStringColumn(col))
       THEN (IF dir = "asc" THEN -1 ELSE 1)
       ELSE IF JsLess(bValue, aValue, StatsStringColumn(col))
            THEN (IF dir = "asc" THEN 1 ELSE -1)
            ELSE 0

\* [...filteredProducts].sort(...)
StatsSorted(filtered, col, dir) ==
    LET Cmp(a, b) == StatsCompare(a, b, col, dir)
    IN SortBy(filtered, Cmp)

\* Array.prototype.reduce((sum, x) => sum + Term(x), 0)
Reduce(s, Term(_)) ==
    LET F[i \in 0..Len(s)] == IF i = 0 THEN 0 ELSE F[i - 1] + Term(s[i])
    IN F[Len(s)]

\* summary cards that add up all the loaded products
SummaryCards_Unfiltered(products, filtered) ==
    LET Volume(p) == Coalesce(p.total_volume, 0)
        Count(p) == p.transaction_count
    IN [totalProducts |-> Len(products),
        totalTransactions |-> Reduce(products, Count),
        totalVolume |-> Reduce(products, Volume)]

\* the summary cards: filteredProducts.length, totalTransactions, totalVolume
SummaryCards(products, filtered) ==
    LET Volume(p) == Coalesce(p.total_volume, 0)
        Count(p) == p.transaction_count
    IN [totalProducts |-> Len(filtered),
        totalTransactions |-> Reduce(filtered, Count),
        totalVolume |-> Reduce(filtered, Volume)]

(***************************************************************************)
(* The state: App's two hooks and the hooks of the view it renders.  A     *)
(* view that is not rendered holds no state (mounted = FALSE); mounting    *)
(* starts its fetch, which is in flight while loading is TRUE.             *)
(***************************************************************************)
VARIABLES
    currentPage,    \* App: 'transactions' | 'stats'
    selectedSku,    \* App: string | null
    tl,             \* TransactionList's hooks
    ps,             \* ProductStatsComponent's hooks
    sh,             \* ProductShow's prop sku and hooks
    txTable         \* the server's transactions table, in insertion order

vars == <<currentPage, selectedSku, tl, ps, sh, txTable>>

Pages == {"transactions", "stats"}

\* useState initial values of TransactionList
TLMounted ==
    [mounted |-> TRUE, transactions |-> <<>>, loading |-> TRUE, error |-> Null,
     sortColumn |-> "event_time", sortDirection |-> "desc"]
TLUnmounted == [TLMounted EXCEPT !.mounted = FALSE]

\* useState initial values of ProductStatsComponent
PSMounted ==
    [mounted |-> TRUE, products |-> <<>>, loading |-> TRUE, error |-> Null,
     sortColumn |-> "total_volume", sortDirection |-> "desc",
     searchQuery |-> S_empty, selectedMaterials |-> {}]
PSUnmounted == [PSMounted EXCEPT !.mounted = FALSE]

\* useState initial values of ProductShow
SHMounted(sku) ==
    [mounted |-> TRUE, sku |-> sku, data |-> Null, loading |-> TRUE, error |-> Null,
     sortColumn |-> "event_time", sortDirection |-> "desc",
     \* the skus of the fetches the effect has started that have not settled
     pending |-> <<sku>>]
SHUnmounted == [SHMounted(S_empty) EXCEPT !.mounted = FALSE, !.pending = <<>>]

\* if (error): a message that is not the empty string
ErrorSet(error) == ~IsNull(error) /\ Val(error) # ""

\* a list that looks for rows before it looks for an error
TLView_EmptyFirst ==
    IF tl.loading THEN "loading"
    ELSE IF Len(tl.transactions) = 0 THEN "empty"
    ELSE IF ErrorSet(tl.error) THEN "error"
    ELSE "table"

\* what each component renders
TLView ==
    IF tl.loading THEN "loading"
    ELSE IF ErrorSet(tl.error) THEN "error"
    ELSE IF Len(tl.transactions) = 0 THEN "empty"
    ELSE "table"

PSView ==
    IF ps.loading THEN "loading"
    ELSE IF ErrorSet(ps.error) THEN "error"
    ELSE IF Len(ps.products) = 0 THEN "empty"
    ELSE "table"

SHView ==
    IF sh.loading THEN "loading"
    ELSE IF ErrorSet(sh.error) \/ IsNull(sh.data) THEN "error"
    ELSE IF Len(Val(sh.data).transactions) = 0 THEN "empty"
    ELSE "table"

\* the derived values of the current render
sortedTransactions == TxSorted(tl.transactions, tl.sortColumn, tl.sortDirection)
filteredProducts == FilteredProducts(ps.products, ps.searchQuery, ps.selectedMaterials)
sortedProducts == StatsSorted(filteredProducts, ps.sortColumn, ps.sortDirection)
uniqueMaterials == UniqueMaterials(ps.products)
showTransactions == IF IsNull(sh.data) THEN <<>> ELSE Val(sh.data).transactions
showSorted == ShowSorted(sh.data, sh.sortColumn, sh.sortDirection)
\* BuySellDemandChart's series over its transactions prop, the ProductTransaction[]
\* of the product page
dailyData == DailyData(showTransactions)

summaryCards == SummaryCards(ps.products, filteredProducts)

\* the messages a failed fetch leaves in error
FetchErrors(what) == {"Failed to fetch " \o what \o ": Internal Server Error", "Failed to fetch"}

\* GET /products/:sku
ProductDetailsResponses(sku) ==
    { [product |-> [sku |-> sku], transactions |-> t] :
        t \in ArraysOf({tx \in AllTransactions : tx.sku = sku \/ tx.pure_product_id = sku},
                       MaxTx) }

\* App's render after its hooks change: the view shown is mounted afresh
\* unless it was already shown
Render(page, selected) ==
    /\ tl' = IF IsNull(selected) /\ page = "transactions"
             THEN (IF tl.mounted THEN tl ELSE TLMounted)
             ELSE TLUnmounted
    /\ ps' = IF IsNull(selected) /\ page = "stats"
             THEN (IF ps.mounted THEN ps ELSE PSMounted)
             ELSE PSUnmounted
    /\ sh' = IF IsNull(selected) THEN SHUnmounted
             ELSE (IF sh.mounted /\ sh.sku = Val(selected) THEN sh
                   ELSE SHMounted(Val(selected)))
    /\ UNCHANGED txTable

Init ==
    /\ currentPage = "transactions"
    /\ selectedSku = Null
    /\ tl = TLMounted
    /\ ps = PSUnmounted
    /\ sh = SHUnmounted
    /\ txTable = <<>>

(***************************************************************************)
(* App.                                                                    *)
(***************************************************************************)
\* the nav bar buttons: setCurrentPage(page)
SetCurrentPage(page) ==
    /\ IsNull(selectedSku)
    /\ currentPage' = page
    /\ UNCHANGED selectedSku
    /\ Render(page, selectedSku)

\* handleProductClick, from a row of the table shown
HandleProductClick ==
    /\ IsNull(selectedSku)
    /\ \E sku \in IF currentPage = "transactions"
                  THEN (IF TLView = "table"
                        THEN {sortedTransactions[i].pure_product_id :
                                  i \in 1..Len(sortedTransactions)}
                        ELSE {})
                  ELSE (IF PSView = "table"
                        THEN {sortedProducts[i].sku : i \in 1..Len(sortedProducts)}
                        ELSE {}) :
           /\ selectedSku' = Some(sku)
           /\ Render(currentPage, Some(sku))
    /\ UNCHANGED currentPage

\* a handleBackToList that always returns to the transactions page
HandleBackToList_ToTransactions ==
    /\ sh.mounted
    /\ SHView # "loading"
    /\ selectedSku' = Null
    /\ currentPage' = "transactions"
    /\ Render("transactions", Null)

\* handleBackToList, from ProductShow's back button
HandleBackToList ==
    /\ sh.mounted
    /\ SHView # "loading"
    /\ selectedSku' = Null
    /\ UNCHANGED currentPage
    /\ Render(currentPage, Null)

(***************************************************************************)
(* TransactionList.                                                        *)
(***************************************************************************)
\* loadTransactions after the await: the fetch resolved
TLLoadResolved ==
    /\ tl.mounted /\ tl.loading
    /\ \E data \in TransactionsResponses :
           tl' = [tl EXCEPT !.transactions = data, !.error = Null, !.loading = FALSE]
    /\ UNCHANGED <<currentPage, selectedSku, ps, sh, txTable>>

\* a loadTransactions whose catch branch is not followed by the finally branch
TLLoadRejected_NoFinally ==
    /\ tl.mounted /\ tl.loading
    /\ \E msg \in FetchErrors("transactions") :
           tl' = [tl EXCEPT !.error = Some(msg)]
    /\ UNCHANGED <<currentPage, selectedSku, ps, sh, txTable>>

\* loadTransactions after the await: the fetch threw
TLLoadRejected ==
    /\ tl.mounted /\ tl.loading
    /\ \E msg \in FetchErrors("transactions") :
           tl' = [tl EXCEPT !.error = Some(msg), !.loading = FALSE]
    /\ UNCHANGED <<currentPage, selectedSku, ps, sh, txTable>>

\* a handleSort after which the render sorts the loaded array in place
TLHandleSort_InPlace(column) ==
    /\ tl.mounted /\ TLView = "table"
    /\ tl' = IF tl.sortColumn = column
             THEN [tl EXCEPT !.sortDirection = IF @ = "asc" THEN "desc" ELSE "asc",
                             !.transactions =
                                 TxSorted(@, column,
                                          IF tl.sortDirection = "asc" THEN "desc" ELSE "asc")]
             ELSE [tl EXCEPT !.sortColumn = column, !.sortDirection = "asc",
                             !.transactions = TxSorted(@, column, "asc")]
    /\ UNCHANGED <<currentPage, selectedSku, ps, sh, txTable>>

\* handleSort, from a header of the table
TLHandleSort(column) ==
    /\ tl.mounted /\ TLView = "table"
    /\ tl' = IF tl.sortColumn = column
             THEN [tl EXCEPT !.sortDirection = IF @ = "asc" THEN "desc" ELSE "asc"]
             ELSE [tl EXCEPT !.sortColumn = column, !.sortDirection = "asc"]
    /\ UNCHANGED <<currentPage, selectedSku, ps, sh, txTable>>

(***************************************************************************)
(* ProductStatsComponent.                                                  *)
(***************************************************************************)
\* loadProductStats after the await: the fetch resolved
PSLoadResolved ==
    /\ ps.mounted /\ ps.loading
    /\ \E data \in ProductStatsResponses :
           ps' = [ps EXCEPT !.products = data, !.error = Null, !.loading = FALSE]
    /\ UNCHANGED <<currentPage, selectedSku, tl, sh, txTable>>

\* loadProductStats after the await: the fetch threw
PSLoadRejected ==
    /\ ps.mounted /\ ps.loading
    /\ \E msg \in FetchErrors("product stats") :
           ps' = [ps EXCEPT !.error = Some(msg), !.loading = FALSE]
    /\ UNCHANGED <<currentPage, selectedSku, tl, sh, txTable>>

\* a handleSort that keeps the direction when the column changes
PSHandleSort_KeepsDirection(column) ==
    /\ ps.mounted /\ PSView = "table"
    /\ ps' = IF ps.sortColumn = column
             THEN [ps EXCEPT !.sortDirection = IF @ = "asc" THEN "desc" ELSE "asc"]
             ELSE [ps EXCEPT !.sortColumn = column]
    /\ UNCHANGED <<currentPage, selectedSku, tl, sh, txTable>>

\* handleSort, from a header of the table
PSHandleSort(column) ==
    /\ ps.mounted /\ PSView = "table"
    /\ ps' = IF ps.sortColumn = column
             THEN [ps EXCEPT !.sortDirection = IF @ = "asc" THEN "desc" ELSE "asc"]
             ELSE [ps EXCEPT !.sortColumn = column, !.sortDirection = "asc"]
    /\ UNCHANGED <<currentPage, selectedSku, tl, sh, txTable>>

\* the search box's onChange: setSearchQuery(e.target.value)
SetSearchQuery(query) ==
    /\ ps.mounted /\ PSView = "table"
    /\ ps' = [ps EXCEPT !.searchQuery = query]
    /\ UNCHANGED <<currentPage, selectedSku, tl, sh, txTable>>

\* toggleMaterial, from one of the checkboxes rendered
PSToggleMaterial ==
    /\ ps.mounted /\ PSView = "table"
    /\ \E i \in 1..Len(uniqueMaterials) :
           ps' = [ps EXCEPT !.selectedMaterials = ToggleMaterial(@, uniqueMaterials[i])]
    /\ UNCHANGED <<currentPage, selectedSku, tl, sh, txTable>>

\* the "Clear filters" button: setSelectedMaterials(new Set())
ClearFilters ==
    /\ ps.mounted /\ PSView = "table"
    /\ Cardinality(ps.selectedMaterials) > 0
    /\ ps' = [ps EXCEPT !.selectedMaterials = {}]
    /\ UNCHANGED <<currentPage, selectedSku, tl, sh, txTable>>

(***************************************************************************)
(* ProductShow.                                                            *)
(***************************************************************************)
\* a sequence without its i-th element
RemoveAt(s, i) == SubSeq(s, 1, i - 1) \o SubSeq(s, i + 1, Len(s))

\* loadProductDetails after the await: a fetch resolved, with the details of
\* the sku it was started for
SHLoadResolved ==
    /\ sh.mounted
    /\ \E i \in 1..Len(sh.pending) :
           \E data \in ProductDetailsResponses(sh.pending[i]) :
               sh' = [sh EXCEPT !.data = Some(data), !.error = Null, !.loading = FALSE,
                                !.pending = RemoveAt(@, i)]
    /\ UNCHANGED <<currentPage, selectedSku, tl, ps, txTable>>

\* loadProductDetails after the await: a fetch threw
SHLoadRejected ==
    /\ sh.mounted
    /\ \E i \in 1..Len(sh.pending) :
           \E msg \in FetchErrors("product details") :
               sh' = [sh EXCEPT !.error = Some(msg), !.loading = FALSE,
                                !.pending = RemoveAt(@, i)]
    /\ UNCHANGED <<currentPage, selectedSku, tl, ps, txTable>>

\* handleSort, from a header of the table
SHHandleSort(column) ==
    /\ sh.mounted /\ SHView = "table"
    /\ sh' = IF sh.sortColumn = column
             THEN [sh EXCEPT !.sortDirection = IF @ = "asc" THEN "desc" ELSE "asc"]
             ELSE [sh EXCEPT !.sortColumn = column, !.sortDirection = "asc"]
    /\ UNCHANGED <<currentPage, selectedSku, tl, ps, txTable>>

Next ==
    \/ \E page \in Pages : SetCurrentPage(page)
    \/ HandleProductClick
    \/ HandleBackToList
    \/ TLLoadResolved
    \/ TLLoadRejected
    \/ \E column \in TxSortColumns : TLHandleSort(column)
    \/ PSLoadResolved
    \/ PSLoadRejected
    \/ \E column \in StatsSortColumns : PSHandleSort(column)
    \/ \E query \in SearchQueries : SetSearchQuery(query)
    \/ PSToggleMaterial
    \/ ClearFilters
    \/ SHLoadResolved
    \/ SHLoadRejected
    \/ \E column \in ShowSortColumns : SHHandleSort(column)

Spec == Init /\ [][Next]_vars

(***************************************************************************)
(* Each view alone, from the moment App has mounted it.                    *)
(***************************************************************************)
InitList == Init

NextList ==
    \/ TLLoadResolved
    \/ TLLoadRejected
    \/ \E column \in TxSortColumns : TLHandleSort(column)

SpecList == InitList /\ [][NextList]_vars

InitStats ==
    /\ currentPage = "stats"
    /\ selectedSku = Null
    /\ tl = TLUnmounted
    /\ ps = PSMounted
    /\ sh = SHUnmounted
    /\ txTable = <<>>

NextStats ==
    \/ PSLoadResolved
    \/ PSLoadRejected
    \/ \E column \in StatsSortColumns : PSHandleSort(column)
    \/ \E query \in SearchQueries : SetSearchQuery(query)
    \/ PSToggleMaterial
    \/ ClearFilters

SpecStats == InitStats /\ [][NextStats]_vars

\* the rows a click can come from
ClickableSkus ==
    {tx.pure_product_id : tx \in AllTransactions} \cup {p.sku : p \in AllProductStats}

InitShow ==
    /\ currentPage \in Pages
    /\ \E sku \in ClickableSkus :
           /\ selectedSku = Some(sku)
           /\ sh = SHMounted(sku)
    /\ tl = TLUnmounted
    /\ ps = PSUnmounted
    /\ txTable = <<>>

NextShow ==
    \/ SHLoadResolved
    \/ SHLoadRejected
    \/ \E column \in ShowSortColumns : SHHandleSort(column)

SpecShow == InitShow /\ [][NextShow]_vars

\* ProductShow under a parent that passes another sku while the component
\* stays mounted: the state is kept and the effect, whose dependency is
\* [sku], runs again: setLoading(true) and one more fetch
PropSkus == {S_B2, S_C3}

InitProp ==
    /\ currentPage \in Pages
    /\ \E sku \in PropSkus :
           /\ selectedSku = Some(sku)
           /\ sh = SHMounted(sku)
    /\ tl = TLUnmounted
    /\ ps = PSUnmounted
    /\ txTable = <<>>

SHSkuChanged ==
    /\ sh.mounted
    /\ Len(sh.pending) < MaxInFlight
    /\ \E sku \in PropSkus \ {sh.sku} :
           /\ selectedSku' = Some(sku)
           /\ sh' = [sh EXCEPT !.sku = sku, !.loading = TRUE,
                                !.pending = Append(@, sku)]
    /\ UNCHANGED <<currentPage, tl, ps, txTable>>

NextProp ==
    \/ SHLoadResolved
    \/ SHLoadRejected
    \/ SHSkuChanged

SpecProp == InitProp /\ [][NextProp]_vars

(***************************************************************************)
(* The classification rule, as the specification states it.                *)
(***************************************************************************)
Classify(tx) ==
    IF tx.variant_label = S_PurePriority THEN "buy"
    ELSE IF tx.event_type = Some(S_buy) THEN "buy"
    ELSE IF tx.event_type = Some(S_sell) THEN "sell"
    ELSE "unknown"

\* what a Type cell tells the reader: BUY, SELL, or neither
BadgeClass(badge) ==
    IF IsNull(badge) THEN "unknown"
    ELSE IF Val(badge).label = S_BUY THEN "buy"
    ELSE IF Val(badge).label = S_SELL THEN "sell"
    ELSE "unknown"

\* the accumulator the chart picks, in the rule's words
ChartClass(tx) == IF ChartSide(tx) = "none" THEN "unknown" ELSE ChartSide(tx)

Range(s) == {s[i] : i \in 1..Len(s)}

\* C1: the transaction list's badge and the demand chart's accumulator follow
\* the priority rule: Pure Priority is buy whatever event_type holds, else
\* event_type when it is buy or sell, else unknown.
C1_ClassifyPriority ==
    /\ \A tx \in Range(tl.transactions) : BadgeClass(TxBadge(tx)) = Classify(tx)
    /\ \A tx \in Range(showTransactions) : ChartClass(tx) = Classify(tx)

\* C1 witness: the product page has loaded a Pure Priority sale, which the
\* chart adds to buyAmount
C1_Witness ==
    /\ SHView = "table"
    /\ \E tx \in Range(showTransactions) :
           tx.variant_label = S_PurePriority /\ tx.event_type = Some(S_sell)

\* C2: every transaction gets one classification wherever it is shown: for
\* the transactions of the product page, the page's own badge, the badge the
\* transaction list gives the same transaction and the chart's accumulator
\* are one and the same classify(tx).
C2_SameEverywhere ==
    \A tx \in Range(showTransactions) :
        /\ BadgeClass(ShowBadge(tx)) = Classify(tx)
        /\ BadgeClass(TxBadge(tx)) = Classify(tx)
        /\ ChartClass(tx) = Classify(tx)

\* the ratio and amount columns of the stats table, all nullable
RatioAmountColumns ==
    {"buy_sell_ratio", "total_volume", "total_buy_amount", "total_sell_amount"}

\* C3: with the stats table sorted by a ratio or amount column, no row whose
\* value in that column is null stands before a row with a value, ascending
\* or descending.
C3_NullsLast ==
    (PSView = "table" /\ ps.sortColumn \in RatioAmountColumns) =>
        \A i, j \in 1..Len(sortedProducts) :
            i < j => ~(IsNull(sortedProducts[i][ps.sortColumn])
                       /\ ~IsNull(sortedProducts[j][ps.sortColumn]))

\* no two rows of s have the same sort key
NoTies(s, Key(_)) == \A i, j \in 1..Len(s) : i # j => Key(s[i]) # Key(s[j])

TxKey(tx) == TxSortValue(tl.sortColumn, tx)
StatsKey(p) == StatsSortValue(ps.sortColumn, p)
ShowKey(tx) == ShowSortValue(sh.sortColumn, tx)

\* C4: in each of the three tables, when no two rows have the same key in
\* the sort column, the descending order is the ascending order reversed.
C4_ToggleReverses ==
    /\ NoTies(tl.transactions, TxKey) =>
           TxSorted(tl.transactions, tl.sortColumn, "desc")
               = Reverse(TxSorted(tl.transactions, tl.sortColumn, "asc"))
    /\ NoTies(filteredProducts, StatsKey) =>
           StatsSorted(filteredProducts, ps.sortColumn, "desc")
               = Reverse(StatsSorted(filteredProducts, ps.sortColumn, "asc"))
    /\ NoTies(showTransactions, ShowKey) =>
           ShowSorted(sh.data, sh.sortColumn, "desc")
               = Reverse(ShowSorted(sh.data, sh.sortColumn, "asc"))

\* C4 witness: the transaction list shows three rows without ties, sorted
\* descending by a column the user picked and then toggled
C4_Witness ==
    /\ TLView = "table"
    /\ Len(tl.transactions) >= 3
    /\ tl.sortColumn = "spot_premium_dollar" /\ tl.sortDirection = "desc"
    /\ NoTies(tl.transactions, TxKey)

\* the place of row x in s
IndexOf(s, x) == CHOOSE k \in 1..Len(s) : s[k] = x

\* rows with equal keys stand in out as they stand in in
KeepsTies(in, out, Key(_)) ==
    /\ Range(out) = Range(in)
    /\ \A i, j \in 1..Len(in) :
           (i < j /\ Key(in[i]) = Key(in[j])) => IndexOf(out, in[i]) < IndexOf(out, in[j])

\* C5: the sort is stable, ascending and descending: rows with equal keys in
\* the sort column keep their input order in each of the tables.
C5_StableSort ==
    /\ KeepsTies(tl.transactions, sortedTransactions, TxKey)
    /\ KeepsTies(filteredProducts, sortedProducts, StatsKey)
    /\ KeepsTies(showTransactions, showSorted, ShowKey)

\* C5 witness: the stats table is sorted ascending by a column in which two
\* of its rows tie and a third comes first
C5_Witness ==
    /\ PSView = "table"
    /\ ps.sortDirection = "asc"
    /\ Len(filteredProducts) >= 3
    /\ \E i, j, k \in 1..Len(filteredProducts) :
           /\ i < j
           /\ StatsKey(filteredProducts[i]) = StatsKey(filteredProducts[j])
           /\ k > j
           /\ StatsCompare(filteredProducts[k], filteredProducts[i],
                           ps.sortColumn, ps.sortDirection) < 0

\* sub occurs in s at some offset
OccursIn(sub, s) ==
    \E i \in 1..(Len(s) + 1) :
        i + Len(sub) - 1 <= Len(s) /\ SubSeq(s, i, i + Len(sub) - 1) = sub

\* the text predicate: the query, case-folded, occurs in the case-folded name
TextMatches(p, query) == OccursIn(ToLowerCase(query), ToLowerCase(p.name))

\* the material predicate: no material chosen, or the product's own is chosen
MaterialMatches(p, materials) == materials = {} \/ \E m \in materials : m = p.material

\* C6: the filter keeps exactly the products that pass the text predicate and
\* the material predicate, in the order they were loaded.
C6_FilterExact ==
    /\ Range(filteredProducts)
           = {p \in Range(ps.products) :
                  TextMatches(p, ps.searchQuery) /\ MaterialMatches(p, ps.selectedMaterials)}
    /\ \A i, j \in 1..Len(filteredProducts) :
           i < j => IndexOf(ps.products, filteredProducts[i])
                        < IndexOf(ps.products, filteredProducts[j])

\* C6 witness: a query and a material selection are both in force; they keep
\* two products and drop another
C6_Witness ==
    /\ PSView = "table"
    /\ ps.searchQuery # S_empty
    /\ ps.selectedMaterials # {}
    /\ Len(filteredProducts) >= 2
    /\ Len(filteredProducts) < Len(ps.products)

\* C7: with no material selected (and nothing typed) the filter returns the
\* loaded products unchanged; with {"Gold"} selected it returns only products
\* whose material is exactly "Gold", and all of them when nothing is typed.
C7_MaterialSet ==
    /\ (ps.selectedMaterials = {} /\ ps.searchQuery = S_empty) =>
           filteredProducts = ps.products
    /\ ps.selectedMaterials = {S_Gold} =>
           /\ \A p \in Range(filteredProducts) : p.material = S_Gold
           /\ ps.searchQuery = S_empty =>
                  \A p \in Range(ps.products) :
                      p.material = S_Gold => p \in Range(filteredProducts)

\* C7 witness: "Gold" alone is selected while a "gold" or "GOLD" product is
\* loaded, and a "Gold" product is shown
C7_Witness ==
    /\ PSView = "table"
    /\ ps.selectedMaterials = {S_Gold}
    /\ \E p \in Range(ps.products) : p.material \in {S_gold, S_GOLD}
    /\ Len(filteredProducts) >= 1

\* toggling m in a selection flips m and nothing else
FlipsOnly(before, after, m) ==
    /\ (m \in after) # (m \in before)
    /\ \A x \in (before \cup after) \ {m} : (x \in after) = (x \in before)

\* C8: every step of the stats view that changes the selection is the clear
\* step or a toggleMaterial step, and a toggleMaterial step adds the material
\* when absent and removes it when present, changing no other membership;
\* toggling twice restores the set; the clear step empties the set, and then
\* the material predicate passes every product.
C8_ToggleAndClear ==
    /\ [][(ps.mounted /\ ps'.mounted /\ ps'.selectedMaterials # ps.selectedMaterials) =>
              \/ ClearFilters
              \/ /\ PSToggleMaterial
                 /\ \E m \in Range(uniqueMaterials) :
                        FlipsOnly(ps.selectedMaterials, ps'.selectedMaterials, m)]_vars
    /\ [][ClearFilters =>
              /\ ps'.selectedMaterials = {}
              /\ \A p \in Range(ps'.products) :
                     TextMatches(p, ps'.searchQuery) => p \in Range(filteredProducts')]_vars
    /\ [](\A m \in Range(uniqueMaterials) :
              /\ FlipsOnly(ps.selectedMaterials, ToggleMaterial(ps.selectedMaterials, m), m)
              /\ ToggleMaterial(ToggleMaterial(ps.selectedMaterials, m), m)
                     = ps.selectedMaterials)

\* C8 witness: two materials have been toggled on and a third is still off
C8_Witness ==
    /\ PSView = "table"
    /\ Cardinality(ps.selectedMaterials) = 2
    /\ Len(uniqueMaterials) = 3

\* the calendar date of a transaction: the first ten characters of event_time
DatePrefix(tx) == SubSeq(tx.event_time, 1, 10)

\* the day number of a date "YYYY-MM-DD"
DayNumber(date) ==
    DaysFromCivil(DigitsAt(date, 1, 4), DigitsAt(date, 6, 7), DigitsAt(date, 9, 10))

\* C9: the chart's series has one bucket for each calendar date among the
\* transactions and no date twice, in strictly ascending date order, whatever
\* the order of the transactions.
C9_OneBucketPerDate ==
    LET dates == {DatePrefix(tx) : tx \in Range(showTransactions)}
    IN /\ {dailyData[k].date : k \in 1..Len(dailyData)} = dates
       /\ Len(dailyData) = Cardinality(dates)
       /\ \A k \in 1..(Len(dailyData) - 1) :
              /\ StrLess(dailyData[k].date, dailyData[k + 1].date)
              /\ DayNumber(dailyData[k].date) < DayNumber(dailyData[k + 1].date)

\* C9 witness: three transactions of two dates are charted, the first of a
\* later date than the last
C9_Witness ==
    /\ SHView = "table"
    /\ Len(showTransactions) = 3
    /\ Len(dailyData) = 2
    /\ StrLess(DatePrefix(showTransactions[3]), DatePrefix(showTransactions[1]))

RECURSIVE SumAmounts(_)
\* the sum of price * quantity over a set of transactions
SumAmounts(S) ==
    IF S = {} THEN 0
    ELSE LET tx == CHOOSE x \in S : TRUE
         IN tx.price * tx.quantity + SumAmounts(S \ {tx})

\* cents is x (in 1 / PriceScale cents) rounded to the nearest cent, a half up
NearestCent(cents, x) ==
    /\ 2 * cents * PriceScale - PriceScale <= 2 * x
    /\ 2 * x < 2 * cents * PriceScale + PriceScale

\* C10: a bucket's buyAmount is the sum of price * quantity / 100 over the
\* date's transactions classified buy, its sellAmount the sum over those
\* classified sell, unknown ones adding to neither, each rounded to two
\* decimals once, after the summation.
C10_BucketSums ==
    \A k \in 1..Len(dailyData) :
        LET day == {tx \in Range(showTransactions) : DatePrefix(tx) = dailyData[k].date}
        IN /\ NearestCent(dailyData[k].buyAmount,
                          SumAmounts({tx \in day : Classify(tx) = "buy"}))
           /\ NearestCent(dailyData[k].sellAmount,
                          SumAmounts({tx \in day : Classify(tx) = "sell"}))

\* C10 witness: two buys of one date are charted whose sum rounds to a cent
\* more than their amounts rounded one by one, beside an unclassified
\* transaction
C10_Witness ==
    /\ SHView = "table"
    /\ \E k \in 1..Len(dailyData) :
           LET buys == {tx \in Range(showTransactions) :
                            DatePrefix(tx) = dailyData[k].date /\ Classify(tx) = "buy"}
           IN /\ Cardinality(buys) = 2
              /\ \A tx \in buys :
                     dailyData[k].buyAmount > 2 * ((tx.price * tx.quantity) \div PriceScale)
    /\ \E tx \in Range(showTransactions) : Classify(tx) = "unknown"

\* C11: a date whose transactions are all classified unknown has no bucket in
\* the chart's series: every bucket present holds a transaction classified buy
\* or sell, and has both amounts defined.
C11_NoUnknownOnlyBucket ==
    \A k \in 1..Len(dailyData) :
        /\ dailyData[k].buyAmount \in Nat /\ dailyData[k].sellAmount \in Nat
        /\ \E tx \in Range(showTransactions) :
               DatePrefix(tx) = dailyData[k].date /\ Classify(tx) # "unknown"

(***************************************************************************)
(* The server behind GET /products/stats: the products table, the          *)
(* transactions table and the aggregation of one into rows of the other,   *)
(* one ProductStats per product.  The sums follow SQL: no record, no sum   *)
(* (null).                                                                 *)
(***************************************************************************)
Product(id, nm, sk, mat) == [pure_product_id |-> id, name |-> nm, sku |-> sk, material |-> mat]

\* the products table
ProductsTable ==
    << Product(S_p1, S_Eagle, S_A1, S_Gold), Product(S_p2, S_eagle, S_B2, S_gold),
       Product(S_p3, S_Bar, S_C3, S_Silver), Product(S_p4, S_Maple, S_D4, S_GOLD) >>

\* the rows ingestion can bring: the second product gets a second sale, and
\* the first a second reading of its first transaction
TableRows ==
    AllTransactions
        \cup {TxB(S_Standard, Iso(S_2025_01_02, S_23_30_00Z), 1, 200000, 100, 0, Some(S_sell)),
              TxA(S_Standard, Iso(S_2025_01_01, S_00_00_00Z), 2, 50000, 0, 0, Some(S_sell))}

\* a nullable sum after one more term
AddTo(o, x) == Some(Coalesce(o, 0) + x)

\* a group before its first record
EmptyGroup ==
    [transaction_count |-> 0, buy_count |-> 0, sell_count |-> 0, total_volume |-> Null,
     total_buy_quantity |-> Null, total_sell_quantity |-> Null,
     total_buy_amount |-> Null, total_sell_amount |-> Null]

\* a group that counts every record without "buy" as a sale
AddRecord_UnknownAsSell(g, tx) ==
    LET c == IF Classify(tx) = "buy" THEN "buy" ELSE "sell"
        amount == tx.price * tx.quantity
    IN [transaction_count |-> g.transaction_count + 1,
        buy_count |-> IF c = "buy" THEN g.buy_count + 1 ELSE g.buy_count,
        sell_count |-> IF c = "sell" THEN g.sell_count + 1 ELSE g.sell_count,
        total_volume |-> AddTo(g.total_volume, amount),
        total_buy_quantity |->
            IF c = "buy" THEN AddTo(g.total_buy_quantity, tx.quantity)
            ELSE g.total_buy_quantity,
        total_sell_quantity |->
            IF c = "sell" THEN AddTo(g.total_sell_quantity, tx.quantity)
            ELSE g.total_sell_quantity,
        total_buy_amount |->
            IF c = "buy" THEN AddTo(g.total_buy_amount, amount) ELSE g.total_buy_amount,
        total_sell_amount |->
            IF c = "sell" THEN AddTo(g.total_sell_amount, amount) ELSE g.total_sell_amount]

\* a group after one more of its records
AddRecord(g, tx) ==
    LET c == Classify(tx)
        amount == tx.price * tx.quantity
    IN [transaction_count |-> g.transaction_count + 1,
        buy_count |-> IF c = "buy" THEN g.buy_count + 1 ELSE g.buy_count,
        sell_count |-> IF c = "sell" THEN g.sell_count + 1 ELSE g.sell_count,
        total_volume |-> AddTo(g.total_volume, amount),
        total_buy_quantity |->
            IF c = "buy" THEN AddTo(g.total_buy_quantity, tx.quantity)
            ELSE g.total_buy_quantity,
        total_sell_quantity |->
            IF c = "sell" THEN AddTo(g.total_sell_quantity, tx.quantity)
            ELSE g.total_sell_quantity,
        total_buy_amount |->
            IF c = "buy" THEN AddTo(g.total_buy_amount, amount) ELSE g.total_buy_amount,
        total_sell_amount |->
            IF c = "sell" THEN AddTo(g.total_sell_amount, amount) ELSE g.total_sell_amount]

\* a group whose volume is that of its first record and of every sale after it
GroupOf_VolumeFromFirst(product, transactions) ==
    LET F[i \in 0..Len(transactions)] ==
            IF i = 0 THEN EmptyGroup
            ELSE IF transactions[i].sku = product.sku
                 THEN LET g == AddRecord(F[i - 1], transactions[i])
                      IN IF F[i - 1].transaction_count = 0
                            \/ Classify(transactions[i]) = "sell"
                         THEN g
                         ELSE [g EXCEPT !.total_volume = F[i - 1].total_volume]
                 ELSE F[i - 1]
    IN F[Len(transactions)]

\* a group that takes its records by product name, letter case aside
GroupOf_ByName(product, transactions) ==
    LET F[i \in 0..Len(transactions)] ==
            IF i = 0 THEN EmptyGroup
            ELSE IF ToLowerCase(transactions[i].name) = ToLowerCase(product.name)
                 THEN AddRecord(F[i - 1], transactions[i])
                 ELSE F[i - 1]
    IN F[Len(transactions)]

\* the group of one product: its records, taken in the order given
GroupOf(product, transactions) ==
    LET F[i \in 0..Len(transactions)] ==
            IF i = 0 THEN EmptyGroup
            ELSE IF transactions[i].sku = product.sku
                 THEN AddRecord(F[i - 1], transactions[i])
                 ELSE F[i - 1]
    IN F[Len(transactions)]

\* a ratio that answers 0 without a sale
BuySellRatio_ZeroWithoutSale(buy_count, sell_count) ==
    IF sell_count > 0 THEN Some((buy_count * RatioScale) \div sell_count) ELSE Some(0)

\* buy_count / sell_count, in 1 / RatioScale, or null without a sale
BuySellRatio(buy_count, sell_count) ==
    IF sell_count > 0 THEN Some((buy_count * RatioScale) \div sell_count) ELSE Null

\* the ProductStats row of one product
StatsRow(product, transactions) ==
    LET g == GroupOf(product, transactions)
    IN Stats(product.pure_product_id, product.material, product.name, product.sku,
             g.transaction_count, g.buy_count, g.sell_count,
             BuySellRatio(g.buy_count, g.sell_count), g.total_volume,
             g.total_buy_quantity, g.total_sell_quantity,
             g.total_buy_amount, g.total_sell_amount)

\* an aggregate over the products that have transactions only
Aggregate_TradedOnly(products, transactions) ==
    LET Traded(p) == \E i \in 1..Len(transactions) : transactions[i].sku = p.sku
        traded == SelectSeq(products, Traded)
    IN [k \in 1..Len(traded) |-> StatsRow(traded[k], transactions)]

\* aggregate: one row per product of the products table
Aggregate(products, transactions) ==
    [k \in 1..Len(products) |-> StatsRow(products[k], transactions)]

\* the rows GET /products/stats answers with now
aggregated == Aggregate(ProductsTable, txTable)

\* the columns of UNIQUE(event_time, pure_product_id, pure_variant_id); a
\* row carries its variant as variant_label
Triple(tx) == <<tx.event_time, tx.pure_product_id, tx.variant_label>>

\* the unique index has the row's triple already
Conflicts(table, tx) == \E i \in 1..Len(table) : Triple(table[i]) = Triple(tx)

\* an insert that the table takes whatever it holds
Ingest_Unchecked ==
    /\ Len(txTable) < MaxTx
    /\ \E tx \in TableRows : txTable' = Append(txTable, tx)
    /\ UNCHANGED <<currentPage, selectedSku, tl, ps, sh>>

\* ingestion inserts a transaction: stored, or rejected by the unique index
Ingest ==
    /\ Len(txTable) < MaxTx
    /\ \E tx \in TableRows :
           txTable' = IF Conflicts(txTable, tx) THEN txTable ELSE Append(txTable, tx)
    /\ UNCHANGED <<currentPage, selectedSku, tl, ps, sh>>

\* loadProductStats after the await, answered from the tables
PSLoadAggregated ==
    /\ ps.mounted /\ ps.loading
    /\ ps' = [ps EXCEPT !.products = aggregated, !.error = Null, !.loading = FALSE]
    /\ UNCHANGED <<currentPage, selectedSku, tl, sh, txTable>>

NextServer ==
    \/ Ingest
    \/ PSLoadAggregated

SpecServer == InitStats /\ [][NextServer]_vars

\* the records of the table that belong to a row's product
RecordsOf(row) == {tx \in Range(txTable) : tx.sku = row.sku}

\* C12: with transactions stored, every row has buy_count + sell_count <=
\* transaction_count, and less exactly when the product has a transaction
\* classified unknown.
C12_CountsBound ==
    Len(txTable) > 0 =>
        \A row \in Range(aggregated) \cup Range(ps.products) :
            LET unknown == {tx \in RecordsOf(row) : Classify(tx) = "unknown"}
            IN /\ row.buy_count + row.sell_count <= row.transaction_count
               /\ row \in Range(aggregated) =>
                      ((row.buy_count + row.sell_count < row.transaction_count)
                           <=> unknown # {})

\* C12 witness: one product has a buy, a sale and an unclassified transaction
C12_Witness ==
    \E row \in Range(aggregated) :
        /\ row.transaction_count = 3
        /\ row.buy_count = 1 /\ row.sell_count = 1

\* C13: every row's buy_sell_ratio is null exactly when its sell_count is 0,
\* and is buy_count / sell_count otherwise, without rounding.
C13_RatioNullIffNoSells ==
    \A row \in Range(aggregated) \cup Range(ps.products) :
        /\ IsNull(row.buy_sell_ratio) <=> row.sell_count = 0
        /\ row.sell_count # 0 =>
               Val(row.buy_sell_ratio) * row.sell_count = row.buy_count * RatioScale

\* C13 witness: the view has loaded a row with one buy to two sales, ratio
\* 0.5, beside a row without a sale
C13_Witness ==
    /\ PSView = "table"
    /\ \E row \in Range(ps.products) :
           row.buy_count = 1 /\ row.sell_count = 2 /\ 2 * Val(row.buy_sell_ratio) = RatioScale
    /\ \E row \in Range(ps.products) : row.sell_count = 0

\* the orders a collection of distinct rows can be given in
OrdersOf(s) == {t \in [1..Len(s) -> Range(s)] : Range(t) = Range(s)}

\* C14: the aggregation does not depend on the order of the transactions: in
\* whatever order the stored transactions are taken, the same rows with the
\* same field values come out.
C14_OrderIndependent ==
    \A t \in OrdersOf(txTable) :
        Range(Aggregate(ProductsTable, t)) = Range(aggregated)

\* C14 witness: a buy, a sale and an unclassified transaction of one product
\* are stored, the sale between the other two
C14_Witness ==
    /\ Len(txTable) = 3
    /\ \A i \in 1..3 : txTable[i].sku = txTable[1].sku
    /\ Classify(txTable[1]) = "unknown"
    /\ Classify(txTable[2]) = "sell"
    /\ Classify(txTable[3]) = "buy"

\* the sum of Term over the rows of s
SumOver(s, Term(_)) ==
    LET F[i \in 0..Len(s)] == IF i = 0 THEN 0 ELSE F[i - 1] + Term(s[i])
    IN F[Len(s)]

\* C15: every stored transaction is in exactly one row: the rows'
\* transaction_count add up to the number of transactions, and their
\* total_volume (null as 0) to the sum of price * quantity over all of them,
\* whatever their classification.
C15_EveryRecordOnce ==
    LET Count(row) == row.transaction_count
        Volume(row) == Coalesce(row.total_volume, 0)
        Gross(tx) == tx.price * tx.quantity
    IN /\ SumOver(aggregated, Count) = Len(txTable)
       /\ SumOver(aggregated, Volume) = SumOver(txTable, Gross)
       /\ \A row \in Range(aggregated) : row.transaction_count = Cardinality(RecordsOf(row))

\* C15 witness: transactions of two or three products are stored, one of them
\* unclassified, one a Pure Priority sale
C15_Witness ==
    /\ Len(txTable) = 3
    /\ Cardinality({txTable[i].sku : i \in 1..3}) >= 2
    /\ \E i \in 1..3 : Classify(txTable[i]) = "unknown"
    /\ \E i \in 1..3 :
           txTable[i].variant_label = S_PurePriority /\ txTable[i].event_type = Some(S_sell)

\* C16: a product of the products table without a transaction still has its
\* row: counts 0, ratio null, every total 0 or null.
C16_EmptyGroupRow ==
    \A k \in 1..Len(ProductsTable) :
        (\A i \in 1..Len(txTable) : txTable[i].sku # ProductsTable[k].sku) =>
            \E row \in Range(aggregated) :
                /\ row.sku = ProductsTable[k].sku
                /\ row.transaction_count = 0 /\ row.buy_count = 0 /\ row.sell_count = 0
                /\ IsNull(row.buy_sell_ratio)
                /\ \A total \in {row.total_volume, row.total_buy_quantity,
                                 row.total_sell_quantity, row.total_buy_amount,
                                 row.total_sell_amount} : total \in {Null, Some(0)}

\* C16 witness: the view has loaded the rows while one product had
\* transactions and another had none
C16_Witness ==
    /\ PSView = "table"
    /\ \E row \in Range(ps.products) : row.transaction_count = 0
    /\ \E row \in Range(ps.products) : row.transaction_count >= 2

RECURSIVE SumCounts(_)
\* the sum of transaction_count over a set of rows
SumCounts(S) ==
    IF S = {} THEN 0
    ELSE LET p == CHOOSE x \in S : TRUE
         IN p.transaction_count + SumCounts(S \ {p})

RECURSIVE SumVolumes(_)
\* the sum of total_volume over a set of rows, null as 0
SumVolumes(S) ==
    IF S = {} THEN 0
    ELSE LET p == CHOOSE x \in S : TRUE
         IN (IF IsNull(p.total_volume) THEN 0 ELSE Val(p.total_volume)) + SumVolumes(S \ {p})

\* the loaded products that pass the text and the material predicate
Passing ==
    {p \in Range(ps.products) :
         TextMatches(p, ps.searchQuery) /\ MaterialMatches(p, ps.selectedMaterials)}

\* C18: the stats view's summary cards count and add up the filtered products
\* only: their number, the sum of their transaction_count and the sum of
\* their total_volume, null as 0.  The three are these sums under every sort
\* column and direction the view is in, so a change of the sort alone, which
\* leaves the filtered set as it is, changes none of them.
C18_SummaryOverFiltered ==
    PSView = "table" =>
        /\ summaryCards.totalProducts = Cardinality(Passing)
        /\ summaryCards.totalTransactions = SumCounts(Passing)
        /\ summaryCards.totalVolume = SumVolumes(Passing)

\* C18 witness: a filter is in force that drops a product with transactions
\* and keeps another, and the sort has been changed to another column
C18_Witness ==
    /\ PSView = "table"
    /\ \E p \in Range(ps.products) \ Passing : p.transaction_count > 0
    /\ \E p \in Passing : p.transaction_count > 0
    /\ ps.sortColumn = "name"

\* C19: in the transaction list, daysScanned is the number of whole days from
\* the earliest event_time among all the transactions to now, and is not
\* negative when no event_time is later than now.
C19_DaysScanned ==
    TLView = "table" =>
        \A now \in ClockReadings :
            LET times == {GetTimeSeconds(tx.event_time) : tx \in Range(tl.transactions)}
                earliest == CHOOSE e \in times : \A t \in times : e <= t
                days == DaysScanned(tl.transactions, now)
            IN /\ days * 86400 <= now - earliest
               /\ now - earliest < (days + 1) * 86400
               /\ (\A t \in times : t <= now) => days >= 0

\* C19 witness: the list shows transactions of which the first is not the
\* earliest, and the clock can read one whole day, or less than none, since
\* the earliest
C19_Witness ==
    /\ TLView = "table"
    /\ \E i \in 2..Len(tl.transactions) :
           GetTimeSeconds(tl.transactions[i].event_time)
               < GetTimeSeconds(tl.transactions[1].event_time)
    /\ \E now \in ClockReadings : DaysScanned(tl.transactions, now) = 1
    /\ \E now \in ClockReadings : DaysScanned(tl.transactions, now) = -1

\* no row without event_type stands before a row with "buy" or "sell"
MissingTypeLast(sorted) ==
    \A i, j \in 1..Len(sorted) :
        i < j => ~(/\ IsNull(sorted[i].event_type)
                   /\ sorted[j].event_type \in {Some(S_buy), Some(S_sell)})

\* C20: sorted ascending by the event-type column, the transaction list and
\* the product page show every transaction without event_type after every
\* transaction whose event_type is "buy" or "sell".
C20_MissingTypeLast ==
    /\ (TLView = "table" /\ tl.sortColumn = "event_type" /\ tl.sortDirection = "asc")
           => MissingTypeLast(sortedTransactions)
    /\ (SHView = "table" /\ sh.sortColumn = "event_type" /\ sh.sortDirection = "asc")
           => MissingTypeLast(showSorted)

\* C20 witness: the list is sorted ascending by event type, and of the loaded
\* transactions one without event_type came before a buy and a sale
C20_Witness ==
    /\ TLView = "table" /\ tl.sortColumn = "event_type" /\ tl.sortDirection = "asc"
    /\ Len(tl.transactions) = 3
    /\ IsNull(tl.transactions[1].event_type)
    /\ tl.transactions[2].event_type = Some(S_sell)
    /\ tl.transactions[3].event_type = Some(S_buy)

\* the columns whose field may be null
NullableColumns ==
    {"event_type", "buy_sell_ratio", "total_volume", "total_buy_quantity",
     "total_sell_quantity", "total_buy_amount", "total_sell_amount"}

\* whether a row has a key in a column
HasKey(col, row) == col \in NullableColumns => ~IsNull(row[col])

\* the key of a row in a column: the epoch value of a date, the lower-cased
\* material or name, price * quantity for the total, else the field itself
KeyOf(col, row) ==
    IF col = "event_time" THEN GetTimeSeconds(row.event_time)
    ELSE IF col \in {"material", "name"} THEN ToLowerCase(row[col])
    ELSE IF col = "total" THEN row.price * row.quantity
    ELSE IF col \in NullableColumns THEN Val(row[col])
    ELSE row[col]

\* key a does not come after key b
KeyLeq(col, a, b) ==
    IF col \in {"material", "name", "event_type"} THEN ~StrLess(b, a) ELSE a <= b

\* the rows of sorted that have a key stand in the order of their keys
OrderedByKey(sorted, col, dir) ==
    \A i, j \in 1..Len(sorted) :
        (i < j /\ HasKey(col, sorted[i]) /\ HasKey(col, sorted[j])) =>
            IF dir = "asc"
            THEN KeyLeq(col, KeyOf(col, sorted[i]), KeyOf(col, sorted[j]))
            ELSE KeyLeq(col, KeyOf(col, sorted[j]), KeyOf(col, sorted[i]))

\* C21: in each table the rows shown are in the order of the sort column's
\* key, never falling when ascending and never rising when descending: the
\* epoch value for event_time, the lower-cased string for material and name,
\* price * quantity for total, the field itself for the other columns (among
\* the rows that have the field).
C21_OrderedByKey ==
    /\ OrderedByKey(sortedTransactions, tl.sortColumn, tl.sortDirection)
    /\ OrderedByKey(sortedProducts, ps.sortColumn, ps.sortDirection)
    /\ OrderedByKey(showSorted, sh.sortColumn, sh.sortDirection)

\* C21 witness: the stats table shows three products sorted descending by
\* name, two of the names differing in letter case only
C21_Witness ==
    /\ PSView = "table"
    /\ ps.sortColumn = "name" /\ ps.sortDirection = "desc"
    /\ Len(sortedProducts) = 3
    /\ \E i, j \in 1..3 :
           /\ sortedProducts[i].name # sortedProducts[j].name
           /\ ToLowerCase(sortedProducts[i].name) = ToLowerCase(sortedProducts[j].name)

\* C22: no two stored transactions have the same product, variant and
\* event_time, and every step that changes the table appends one row whose
\* triple the table did not hold: an insert of a held triple changes nothing.
C22_UniqueTriple ==
    /\ [](\A i, j \in 1..Len(txTable) : i # j => Triple(txTable[i]) # Triple(txTable[j]))
    /\ [][txTable' # txTable =>
              \E tx \in TableRows :
                  /\ txTable' = Append(txTable, tx)
                  /\ \A i \in 1..Len(txTable) :
                         ~(/\ txTable[i].event_time = tx.event_time
                           /\ txTable[i].pure_product_id = tx.pure_product_id
                           /\ txTable[i].variant_label = tx.variant_label)]_vars

\* C22 witness: the table holds two rows, and ingestion can bring another
\* reading, at another price, of the triple of one of them
C22_Witness ==
    /\ Len(txTable) = 2
    /\ \E tx \in TableRows :
           /\ tx \notin Range(txTable)
           /\ \E i \in 1..2 : Triple(txTable[i]) = Triple(tx) /\ txTable[i].price # tx.price

\* C23: a fetch that fails leaves a message in the view's error, and the view
\* then shows its error view and holds no rows to sort, filter or sum up;
\* error gets a message in no other step.
C23_FetchFailure ==
    /\ [][TLLoadRejected =>
              /\ ~IsNull(tl'.error) /\ Val(tl'.error) \in FetchErrors("transactions")
              /\ TLView' = "error"
              /\ sortedTransactions' = <<>>]_vars
    /\ [][PSLoadRejected =>
              /\ ~IsNull(ps'.error) /\ Val(ps'.error) \in FetchErrors("product stats")
              /\ PSView' = "error"
              /\ sortedProducts' = <<>> /\ filteredProducts' = <<>>
              /\ summaryCards'.totalProducts = 0]_vars
    /\ [][SHLoadRejected =>
              /\ ~IsNull(sh'.error) /\ Val(sh'.error) \in FetchErrors("product details")
              /\ SHView' = "error"
              /\ showSorted' = <<>> /\ dailyData' = <<>>]_vars
    /\ [][(tl'.error # tl.error /\ ~IsNull(tl'.error)) => TLLoadRejected]_vars
    /\ [][(ps'.error # ps.error /\ ~IsNull(ps'.error)) => PSLoadRejected]_vars
    /\ [][(sh'.error # sh.error /\ ~IsNull(sh'.error)) => SHLoadRejected]_vars

\* C23 witness: the product page shows its error view after a failed fetch
C23_Witness ==
    /\ sh.mounted /\ SHView = "error"
    /\ ~IsNull(sh.error)
    /\ currentPage = "stats"

\* what handleSort(c) makes of a sort state: the same column the other way
\* round, or column c ascending
SortAfter(before, after, c) ==
    IF c = before.sortColumn
    THEN /\ after.sortColumn = before.sortColumn
         /\ after.sortDirection # before.sortDirection
         /\ after.sortDirection \in {"asc", "desc"}
    ELSE /\ after.sortColumn = c
         /\ after.sortDirection = "asc"

\* C24: in each table handleSort(c) on the current column flips the direction
\* and keeps the column, and on another column selects it ascending; a view
\* starts at (event_time, desc), the stats view at (total_volume, desc), and
\* while a view stays mounted nothing else changes its sort.
C24_HandleSort ==
    /\ [][\A c \in TxSortColumns : TLHandleSort(c) => SortAfter(tl, tl', c)]_vars
    /\ [][\A c \in StatsSortColumns : PSHandleSort(c) => SortAfter(ps, ps', c)]_vars
    /\ [][\A c \in ShowSortColumns : SHHandleSort(c) => SortAfter(sh, sh', c)]_vars
    /\ [](/\ (tl.mounted /\ tl.loading) =>
                 (tl.sortColumn = "event_time" /\ tl.sortDirection = "desc")
          /\ (ps.mounted /\ ps.loading) =>
                 (ps.sortColumn = "total_volume" /\ ps.sortDirection = "desc")
          /\ (sh.mounted /\ sh.loading) =>
                 (sh.sortColumn = "event_time" /\ sh.sortDirection = "desc"))
    /\ [][/\ (tl.mounted /\ ~tl.loading /\ tl'.mounted
                 /\ <<tl'.sortColumn, tl'.sortDirection>> # <<tl.sortColumn, tl.sortDirection>>)
                 => \E c \in TxSortColumns : TLHandleSort(c)
          /\ (ps.mounted /\ ~ps.loading /\ ps'.mounted
                 /\ <<ps'.sortColumn, ps'.sortDirection>> # <<ps.sortColumn, ps.sortDirection>>)
                 => \E c \in StatsSortColumns : PSHandleSort(c)
          /\ (sh.mounted /\ ~sh.loading /\ sh'.mounted /\ sh'.sku = sh.sku
                 /\ <<sh'.sortColumn, sh'.sortDirection>> # <<sh.sortColumn, sh.sortDirection>>)
                 => \E c \in ShowSortColumns : SHHandleSort(c)]_vars

\* C24 witness: the stats table, sorted descending by name, was sorted by
\* another column before
C24_Witness ==
    /\ PSView = "table"
    /\ ps.sortColumn = "name" /\ ps.sortDirection = "desc"

\* the views a component shows once its load has settled
SettledViews == {"error", "empty", "table"}

\* C25: the step in which a fetch settles, resolved or rejected, ends the
\* loading state and leaves the error view, the empty view or the table view;
\* a resolved fetch leaves error null and so the empty or the table view; a
\* view that has left the loading state stays out of it while it is mounted.
C25_LoadTerminates ==
    /\ [][(TLLoadResolved \/ TLLoadRejected) =>
              (~tl'.loading /\ TLView' \in SettledViews)]_vars
    /\ [][(PSLoadResolved \/ PSLoadRejected) =>
              (~ps'.loading /\ PSView' \in SettledViews)]_vars
    /\ [][(SHLoadResolved \/ SHLoadRejected) =>
              (~sh'.loading /\ SHView' \in SettledViews)]_vars
    /\ [][TLLoadResolved => (IsNull(tl'.error) /\ TLView' \in {"empty", "table"})]_vars
    /\ [][PSLoadResolved => (IsNull(ps'.error) /\ PSView' \in {"empty", "table"})]_vars
    /\ [][SHLoadResolved => (IsNull(sh'.error) /\ SHView' \in {"empty", "table"})]_vars
    /\ [][/\ (tl.mounted /\ ~tl.loading /\ tl'.mounted) => ~tl'.loading
          /\ (ps.mounted /\ ~ps.loading /\ ps'.mounted) => ~ps'.loading
          /\ (sh.mounted /\ ~sh.loading /\ sh'.mounted /\ sh'.sku = sh.sku)
                 => ~sh'.loading]_vars

\* C25 witness: the transaction list after a load that resolved with no rows
C25_Witness ==
    /\ tl.mounted /\ ~tl.loading
    /\ IsNull(tl.error)
    /\ TLView = "empty"

Shown(page, selected) ==
    IF ~IsNull(selected) THEN "detail" ELSE page

\* C27: a step that selects a sku is a product click, made on either page: it
\* opens the detail view for that sku and keeps currentPage; a step that
\* clears the selection is the back button: it keeps currentPage and shows
\* that page again; a step that changes currentPage is a page switch and keeps
\* the selection; and the detail view is mounted exactly while a sku is
\* selected, the page's own view exactly while none is.
C27_Navigation ==
    /\ [][(selectedSku' # selectedSku /\ ~IsNull(selectedSku')) =>
              /\ HandleProductClick
              /\ currentPage' = currentPage
              /\ sh'.mounted /\ sh'.sku = Val(selectedSku')]_vars
    /\ [][(selectedSku' # selectedSku /\ IsNull(selectedSku')) =>
              /\ HandleBackToList
              /\ currentPage' = currentPage
              /\ ~sh'.mounted
              /\ tl'.mounted = (currentPage = "transactions")
              /\ ps'.mounted = (currentPage = "stats")]_vars
    /\ [][currentPage' # currentPage =>
              /\ \E page \in Pages : SetCurrentPage(page)
              /\ selectedSku' = selectedSku]_vars
    /\ [](/\ sh.mounted = (Shown(currentPage, selectedSku) = "detail")
          /\ tl.mounted = (Shown(currentPage, selectedSku) = "transactions")
          /\ ps.mounted = (Shown(currentPage, selectedSku) = "stats"))

\* C27 witness: the detail view of a product clicked on the stats page, its
\* table on display
C27_Witness ==
    /\ currentPage = "stats"
    /\ ~IsNull(selectedSku)
    /\ sh.mounted /\ SHView = "table"
    /\ ~ps.mounted /\ ~tl.mounted

\* C28: in the stats view every selected material is the material of a loaded
\* product, and the checkbox list holds exactly the materials of the loaded
\* products, strictly ascending in code-unit order, so each once.
C28_MaterialsWellFormed ==
    ps.mounted =>
        LET materials == {ps.products[i].material : i \in 1..Len(ps.products)}
        IN /\ ps.selectedMaterials \subseteq materials
           /\ {uniqueMaterials[i] : i \in 1..Len(uniqueMaterials)} = materials
           /\ \A i, j \in 1..Len(uniqueMaterials) :
                  i < j => StrLess(uniqueMaterials[i], uniqueMaterials[j])

\* C28 witness: three checkboxes, two of them ticked, over products that do
\* not arrive in the order of their materials
C28_Witness ==
    /\ PSView = "table"
    /\ Len(uniqueMaterials) = 3
    /\ Cardinality(ps.selectedMaterials) = 2
    /\ \E i \in 1..(Len(ps.products) - 1) :
           StrLess(ps.products[i + 1].material, ps.products[i].material)

\* how often x occurs in s
Count(s, x) == Cardinality({i \in 1..Len(s) : s[i] = x})

\* out holds the rows of in, each as often as in does
SameRows(in, out) ==
    /\ Len(out) = Len(in)
    /\ \A i \in 1..Len(in) : Count(out, in[i]) = Count(in, in[i])

\* C29: in each table the sorted rows are the rows handed to the sort, each as
\* often as it was handed in, and a change of the sort column or direction
\* leaves the loaded collection as it was, order included.
C29_SortKeepsInput ==
    /\ [](/\ SameRows(tl.transactions, sortedTransactions)
          /\ SameRows(filteredProducts, sortedProducts)
          /\ SameRows(showTransactions, showSorted))
    /\ [][/\ (tl.mounted /\ tl'.mounted
                 /\ <<tl'.sortColumn, tl'.sortDirection>> # <<tl.sortColumn, tl.sortDirection>>)
                 => tl'.transactions = tl.transactions
          /\ (ps.mounted /\ ps'.mounted
                 /\ <<ps'.sortColumn, ps'.sortDirection>> # <<ps.sortColumn, ps.sortDirection>>)
                 => ps'.products = ps.products
          /\ (sh.mounted /\ sh'.mounted /\ sh'.sku = sh.sku
                 /\ <<sh'.sortColumn, sh'.sortDirection>> # <<sh.sortColumn, sh.sortDirection>>)
                 => sh'.data = sh.data]_vars

\* C29 witness: the transaction list shows three rows, sorted ascending by
\* quantity, in another order than they were loaded in
C29_Witness ==
    /\ TLView = "table"
    /\ Len(tl.transactions) >= 3
    /\ tl.sortColumn = "quantity" /\ tl.sortDirection = "asc"
    /\ sortedTransactions # tl.transactions

\* the label of the badge the transaction list shows for a row, if it shows one
BadgeLabel(tx) == IF IsNull(TxBadge(tx)) THEN Null ELSE Some(Val(TxBadge(tx)).label)

====
